---------------------------- MODULE Spec2Model ----------------------------
(***************************************************************************)
(* A model of the two command-line utilities of the repository:            *)
(*                                                                         *)
(*   src/data/merge_projects.py   merge_projects(input_files): one pass    *)
(*       over JSON files that keeps, per project name, the entry with the  *)
(*       highest stars_count (specification SpecMerge);                    *)
(*   src/data/update_json_v2.py   main() and update_repo_stats(): the      *)
(*       retry / backoff / rate-limit loop that refreshes the star and     *)
(*       fork counts of every repository of a JSON file (specification     *)
(*       Spec).                                                            *)
(*                                                                         *)
(* JSON values are modelled with their Python type, because the code's     *)
(* behaviour depends on it: a list is not hashable, an int and a str do    *)
(* not compare with >.                                                     *)
(***************************************************************************)
EXTENDS Integers, Sequences, FiniteSets, TLC

VARIABLES
    \* ---- merge_projects.py ----
    input_files,    \* the argument of merge_projects: a sequence of files
    mpc,            \* "start" before the call of merge_projects, "done" after
    merge_result,   \* what the call produced: [exc, merged]
    \* ---- update_json_v2.py ----
    pc,             \* position of the updater (see the actions)
    args_output,    \* args.output: None, "" or a path
    data,           \* the list json.load returned, mutated in place
    loaded,         \* the same list as it was loaded (never modified)
    index,          \* enumerate(data, 1): the repository being processed
    success_count,  \* main's success_count
    retry_count,    \* update_repo_stats' attempt counter
    backoff_time,   \* update_repo_stats' backoff timer
    slept,          \* argument of the last time.sleep of the current call
    reset_delta,    \* reset_timestamp - time.time() at the last line 52
    sleeps,         \* number of time.sleep calls during the current call
    fetches,        \* number of g.get_repo calls during the current call
    rate_limited,   \* RateLimitExceededExceptions caught in the current call
    last_fetch,     \* counts carried by the last successful g.get_repo
    outcome,        \* how the processing of repository index ended
    writes,         \* the json.dump attempts of line 142-143: [path, ok]
    exit_code,      \* value returned by main, -1 while it runs
    quota           \* the API's rate limit: "ok", or "exhausted" for good

merge_vars == <<input_files, mpc, merge_result>>
update_vars == <<pc, args_output, data, loaded, index, success_count,
                 retry_count, backoff_time, slept, reset_delta, sleeps,
                 fetches, rate_limited, last_fetch, outcome, writes, exit_code,
                 quota>>
vars == <<merge_vars, update_vars>>

-----------------------------------------------------------------------------
(* Bounds of the model *)

\* files in one call of merge_projects
MaxFiles == 2
\* entries of all the files of one call, together
MaxEntries == 3
\* repositories in the file the updater loads
MaxRepos == 2
\* RateLimitExceededExceptions the API raises during one update_repo_stats
MaxRateLimits == 2

-----------------------------------------------------------------------------
(***************************************************************************)
(* merge_projects.py: the JSON values                                      *)
(***************************************************************************)

\* Python types of the values of an entry's fields ("absent": no such key).
StrVal(s) == [t |-> "str", v |-> s]
IntVal(n) == [t |-> "int", v |-> n]
Absent == [t |-> "absent", v |-> 0]
\* a JSON array used as a name: not hashable
ListVal == [t |-> "list", v |-> 0]

\* A JSON object with (possibly) the keys name and stars_count.  tag stands
\* for the additional fields a record carries; it tells two records of the
\* same name and stars_count apart.  The inputs give every entry its
\* position in the input as tag: two entries that are equal field by field
\* give the same output whichever of them survives, so nothing is lost.
Project(name, stars) ==
    [kind |-> "dict", name |-> name, stars_count |-> stars, tag |-> 0]
\* An array element that is not an object (a number, a string, null...).
NonDict == [kind |-> "nondict", name |-> Absent, stars_count |-> Absent, tag |-> 0]

Names == {"a", "b"}
StarValues == {1, 2}

\* Records as the data model describes them: string name, integer stars.
WellTyped == {Project(StrVal(n), IntVal(s)) : n \in Names, s \in StarValues}
\* Entries the validation of line 36 rejects.
Rejected == {NonDict, Project(Absent, IntVal(1)), Project(StrVal("a"), Absent)}
\* Entries that pass line 36 although a field has the wrong type.
IllTyped == {Project(ListVal, IntVal(1)), Project(StrVal("a"), StrVal(0))}
Entries == WellTyped \cup Rejected \cup IllTyped



-----------------------------------------------------------------------------
(***************************************************************************)
(* merge_projects.py: merge_projects                                       *)
(*                                                                         *)
(* merged_projects is a Python dict: its keys keep the order of their      *)
(* first insertion, and assigning to a key that is present replaces the    *)
(* value in place.  It is modelled as the sequence of its values (the key  *)
(* of a value is its name).  The state of a call is [exc, merged]: exc is  *)
(* "none" while the call runs normally and the name of the exception once  *)
(* one is raised that no except clause of the function catches.            *)
(***************************************************************************)

\* line 36: isinstance(project, dict) and both keys present
IsValidEntry(project) ==
    /\ project.kind = "dict"
    /\ project.name.t # "absent"
    /\ project.stars_count.t # "absent"

\* line 44, `name in merged_projects`: hashing a list raises TypeError
Hashable(name) == name.t # "list"

\* line 46, `>`: defined between two ints and between two strs only
Comparable(x, y) == x.t = y.t
Greater(x, y) == x.v > y.v

\* A variant of HasKey that never finds the key (a list used for a dict).
HasKeyNever(merged, name) == FALSE

\* line 44: the key is present
HasKey(merged, name) == \E i \in 1..Len(merged) : merged[i].name = name
KeyIndex(merged, name) == CHOOSE i \in 1..Len(merged) : merged[i].name = name

\* A variant of SetExisting that deletes the key and inserts it again, which
\* moves it to the end of the dict.
SetExistingAtEnd(merged, name, project) ==
    Append(SelectSeq(merged, LAMBDA p : p.name # name), project)

\* line 47: merged_projects[name] = project for a key that is present
SetExisting(merged, name, project) ==
    [merged EXCEPT ![KeyIndex(merged, name)] = project]

\* line 50: merged_projects[name] = project for a new key
SetNew(merged, project) == Append(merged, project)

\* Variants of Replaces: >= for >, < for >, and no replacement at all.
ReplacesOnTie(stars_count, stored) == ~Greater(stored, stars_count)
ReplacesLower(stars_count, stored) == Greater(stored, stars_count)
ReplacesNever(stars_count, stored) == FALSE

\* line 46: whether the new entry replaces the stored one
Replaces(stars_count, stored) == Greater(stars_count, stored)

\* lines 35-50: the body of the loop over one file's entries
MergeEntry(st, project) ==
    IF st.exc # "none" THEN st
    ELSE IF ~IsValidEntry(project) THEN st
    ELSE IF ~Hashable(project.name) THEN [st EXCEPT !.exc = "TypeError"]
    ELSE IF HasKey(st.merged, project.name)
         THEN LET stored == st.merged[KeyIndex(st.merged, project.name)].stars_count
              IN  IF ~Comparable(project.stars_count, stored)
                  THEN [st EXCEPT !.exc = "TypeError"]
                  ELSE IF Replaces(project.stars_count, stored)
                       THEN [st EXCEPT !.merged =
                                SetExisting(st.merged, project.name, project)]
                       ELSE st
         ELSE [st EXCEPT !.merged = SetNew(st.merged, project)]

\* line 34: for project in projects
RECURSIVE MergeEntries(_, _)
MergeEntries(st, projects) ==
    IF projects = <<>> THEN st
    ELSE MergeEntries(MergeEntry(st, Head(projects)), Tail(projects))

\* A variant of MergeFile without the handlers of lines 52-55 and the check
\* of line 29: a file that does not hold an array ends the call.
MergeFileAborts(st, file) ==
    IF st.exc # "none" THEN st
    ELSE IF file.kind = "array" THEN MergeEntries(st, file.projects)
    ELSE [st EXCEPT !.exc = "IOError"]

\* lines 23-55: the body of the loop over the files.  IOError (line 54),
\* JSONDecodeError (line 52) and a top-level value that is no list (line 29)
\* leave merged_projects as it is.
MergeFile(st, file) ==
    IF st.exc # "none" THEN st
    ELSE IF file.kind = "array" THEN MergeEntries(st, file.projects)
    ELSE st

\* line 22: for file_path in input_files
RECURSIVE MergeFiles(_, _)
MergeFiles(st, files) ==
    IF files = <<>> THEN st
    ELSE MergeFiles(MergeFile(st, Head(files)), Tail(files))

\* lines 8-58: the call; merged is list(merged_projects.values()) when the
\* call returns (exc = "none").
merge_projects(files) == MergeFiles([exc |-> "none", merged |-> <<>>], files)

\* ---- the inputs of one call ----

FileKinds == {"array", "unopenable", "notjson", "notarray"}

RECURSIVE SumTo(_, _)
SumTo(lens, n) == IF n = 0 THEN 0 ELSE lens[n] + SumTo(lens, n - 1)

\* the file of kind k whose entries are content[from + 1 .. from + len]
FileOf(k, content, from, len) ==
    [kind |-> k,
     projects |-> [i \in 1..len |-> [content[from + i] EXCEPT !.tag = from + i]]]

\* The list of n files of the given kinds and lengths, their entries taken
\* in order from content.
BuildInput(n, kinds, lens, content) ==
    [i \in 1..n |-> FileOf(kinds[i], content, SumTo(lens, i - 1), lens[i])]

-----------------------------------------------------------------------------
(***************************************************************************)
(* Specification SpecMerge: one call of merge_projects on any input        *)
(***************************************************************************)

NoResult == [exc |-> "none", merged |-> <<>>]

UpdaterIdle ==
    /\ pc = "idle" /\ args_output = "<None>" /\ data = <<>> /\ loaded = <<>>
    /\ index = 0 /\ success_count = 0 /\ retry_count = 0 /\ backoff_time = 1
    /\ slept = 0 /\ reset_delta = 0 /\ sleeps = 0 /\ fetches = 0
    /\ rate_limited = 0 /\ last_fetch = <<0, 0>> /\ outcome = "none"
    /\ writes = <<>> /\ exit_code = -1 /\ quota = "ok"

InitMerge ==
    /\ \E n \in 0..MaxFiles :
         \E kinds \in [1..n -> FileKinds], lens \in [1..n -> 0..MaxEntries] :
            /\ SumTo(lens, n) <= MaxEntries
            /\ \A i \in 1..n : kinds[i] # "array" => lens[i] = 0
            /\ \E content \in [1..SumTo(lens, n) -> Entries] :
                  input_files = BuildInput(n, kinds, lens, content)
    /\ mpc = "start"
    /\ merge_result = NoResult
    /\ UpdaterIdle

\* line 78: merged_projects = merge_projects(args.input_files)
CallMerge ==
    /\ mpc = "start"
    /\ merge_result' = merge_projects(input_files)
    /\ mpc' = "done"
    /\ UNCHANGED <<input_files, update_vars>>

NextMerge == CallMerge

SpecMerge == InitMerge /\ [][NextMerge]_vars

-----------------------------------------------------------------------------
(***************************************************************************)
(* update_json_v2.py: the data                                             *)
(***************************************************************************)

\* default of update_repo_stats' max_retries; main passes no other value
max_retries == 5

\* URLs by what lines 116 and 25 ask of them:
\*   "github"  https://github.com/owner/repo
\*   "mirror"  contains github.com without the prefix (http://github.com/...)
\*   "other"   does not contain github.com
\* line 116: 'github.com' in url
ContainsDomain(url) == url \in {"github", "mirror"}
\* line 25: url.startswith("https://github.com/")
HasPrefix(url) == url = "github"

\* A repository record: a mapping (with or without the key links) or an
\* element that is no mapping.  The stored counts are 0; the API reports
\* counts from ApiStars and ApiForks, so an overwritten count shows.
Repo(has_links, links) ==
    [kind |-> "dict", has_links |-> has_links, links |-> links,
     stars_count |-> 0, forks_count |-> 0]
NonMapping ==
    [kind |-> "nondict", has_links |-> FALSE, links |-> <<>>,
     stars_count |-> 0, forks_count |-> 0]

LinkLists == {<<"other">>, <<"github">>, <<"other", "github">>,
              <<"mirror", "github">>}
Repos == {Repo(TRUE, l) : l \in LinkLists} \cup {Repo(FALSE, <<>>), NonMapping}
Datasets == UNION {[1..n -> Repos] : n \in 0..MaxRepos}

ApiStars == {1, 2}
ApiForks == {3}
\* reset_timestamp - time.time() at line 52, in seconds
ResetDeltas == {-2, 0, 2}

\* args.json, and the values of args.output: absent, empty, a path
args_json == "in.json"
OutputArgs == {"<None>", "", "out.json"}
\* Python truth of args.output (line 140): None and "" are false
Truthy(s) == s \notin {"<None>", ""}

Max(x, y) == IF x >= y THEN x ELSE y

-----------------------------------------------------------------------------
(***************************************************************************)
(* update_json_v2.py: main and update_repo_stats                           *)
(*                                                                         *)
(* pc:  "start"      before json.load (line 102)                           *)
(*      "loop"       at the head of the for loop of line 110               *)
(*      "fetch"      in update_repo_stats, before g.get_repo (line 38)     *)
(*      "rate_log"   before g.get_rate_limit of line 45, the counts of the *)
(*                   record already overwritten by lines 41-42             *)
(*      "rate_wait"  in the handler of RateLimitExceededException, before  *)
(*                   g.get_rate_limit of line 51                           *)
(*      "exit"       main has returned exit_code                           *)
(* Every API call is a step of its own: what it answers is the choice of   *)
(* the environment.                                                        *)
(***************************************************************************)

\* A variant of FirstGithubUrl that takes the first link with the prefix of
\* line 25.
RECURSIVE FirstGithubUrlPrefixed(_)
FirstGithubUrlPrefixed(links) ==
    IF links = <<>> THEN "<None>"
    ELSE IF HasPrefix(Head(links)) THEN Head(links)
    ELSE FirstGithubUrlPrefixed(Tail(links))

\* line 116: next(iter(url of the links that contain the domain), None)
RECURSIVE FirstGithubUrl(_)
FirstGithubUrl(links) ==
    IF links = <<>> THEN "<None>"
    ELSE IF ContainsDomain(Head(links)) THEN Head(links)
    ELSE FirstGithubUrl(Tail(links))

\* lines 23-27: extract_repo_path raises ValueError unless the prefix is there
extract_repo_path_raises(github_url) == ~HasPrefix(github_url)

\* A variant of output_file that ignores --output.
output_file_in_place == args_json

\* line 140: output_file = args.output or args.json
output_file == IF Truthy(args_output) THEN args_output ELSE args_json

\* A variant of wait_time without the max of line 52.
wait_time_unclamped(delta) == delta + 1

\* line 52: wait_time = max(reset_timestamp - time.time(), 0) + 1
wait_time(delta) == Max(delta, 0) + 1

\* A variant of NextBackoff that grows the timer by one second.
NextBackoffLinear(b) == b + 1

\* lines 63 and 70: backoff_time *= 2
NextBackoff(b) == b * 2

call_vars == <<retry_count, backoff_time, slept, reset_delta, sleeps,
               fetches, rate_limited, last_fetch>>

Init ==
    /\ pc = "start"
    /\ args_output \in OutputArgs
    /\ data = <<>> /\ loaded = <<>> /\ index = 0 /\ success_count = 0
    /\ retry_count = 0 /\ backoff_time = 1 /\ slept = 0 /\ reset_delta = 0
    /\ sleeps = 0 /\ fetches = 0 /\ rate_limited = 0
    /\ last_fetch = <<0, 0>> /\ outcome = "none"
    /\ writes = <<>> /\ exit_code = -1 /\ quota = "ok"
    /\ input_files = <<>> /\ mpc = "idle" /\ merge_result = NoResult

\* lines 102-108: json.load succeeds
Load ==
    /\ pc = "start"
    /\ \E d \in Datasets : data' = d /\ loaded' = d
    /\ index' = 0 /\ success_count' = 0
    /\ pc' = "loop"
    /\ UNCHANGED <<args_output, call_vars, outcome, writes, exit_code,
                   quota, merge_vars>>

\* lines 102-103 raise (no such file, invalid JSON): lines 147-149
LoadFails ==
    /\ pc = "start"
    /\ outcome' = "load_failed"
    /\ exit_code' = 1
    /\ pc' = "exit"
    /\ UNCHANGED <<args_output, data, loaded, index, success_count, call_vars,
                   writes, quota, merge_vars>>

\* update_repo_stats is not running: its locals do not exist, and the
\* variables that stand for them hold their initial values
NoCall ==
    /\ retry_count' = 0 /\ backoff_time' = 1
    /\ slept' = 0 /\ reset_delta' = 0 /\ sleeps' = 0 /\ fetches' = 0
    /\ rate_limited' = 0 /\ last_fetch' = <<0, 0>>

\* the loop of line 110 has a next element
HasNext == pc = "loop" /\ index < Len(data)

\* the loop body is left for the next element: continue (line 119), the
\* handler of line 136, or the end of the body
EndBody(how) ==
    /\ outcome' = how
    /\ pc' = "loop"

\* line 111: repo.get on an element that is no mapping raises
\* AttributeError outside the try of line 114: lines 147-149
NextRepoNotMapping ==
    /\ HasNext
    /\ data[index + 1].kind # "dict"
    /\ index' = index + 1
    /\ outcome' = "fatal"
    /\ exit_code' = 1
    /\ pc' = "exit"
    /\ NoCall
    /\ UNCHANGED <<args_output, data, loaded, success_count,
                   writes, quota, merge_vars>>

\* line 116: repo['links'] raises KeyError, caught at line 136
NextRepoNoLinks ==
    /\ HasNext
    /\ data[index + 1].kind = "dict"
    /\ ~data[index + 1].has_links
    /\ index' = index + 1
    /\ EndBody("skipped")
    /\ NoCall
    /\ UNCHANGED <<args_output, data, loaded, success_count,
                   writes, exit_code, quota, merge_vars>>

\* lines 116-119: no link contains the domain
NextRepoNoUrl ==
    /\ HasNext
    /\ data[index + 1].kind = "dict"
    /\ data[index + 1].has_links
    /\ FirstGithubUrl(data[index + 1].links) = "<None>"
    /\ index' = index + 1
    /\ EndBody("skipped")
    /\ NoCall
    /\ UNCHANGED <<args_output, data, loaded, success_count,
                   writes, exit_code, quota, merge_vars>>

\* line 122: extract_repo_path raises ValueError, caught at line 136
NextRepoBadUrl ==
    /\ HasNext
    /\ data[index + 1].kind = "dict"
    /\ data[index + 1].has_links
    /\ FirstGithubUrl(data[index + 1].links) # "<None>"
    /\ extract_repo_path_raises(FirstGithubUrl(data[index + 1].links))
    /\ index' = index + 1
    /\ EndBody("skipped")
    /\ NoCall
    /\ UNCHANGED <<args_output, data, loaded, success_count,
                   writes, exit_code, quota, merge_vars>>

\* lines 116-130 and 32-35: update_repo_stats is called
NextRepoCall ==
    /\ HasNext
    /\ data[index + 1].kind = "dict"
    /\ data[index + 1].has_links
    /\ FirstGithubUrl(data[index + 1].links) # "<None>"
    /\ ~extract_repo_path_raises(FirstGithubUrl(data[index + 1].links))
    /\ index' = index + 1
    /\ retry_count' = 0
    /\ backoff_time' = 1
    /\ slept' = 0 /\ reset_delta' = 0 /\ sleeps' = 0 /\ fetches' = 0
    /\ rate_limited' = 0 /\ last_fetch' = <<0, 0>>
    /\ outcome' = IF 0 < max_retries THEN "none" ELSE "gave_up"
    /\ pc' = IF 0 < max_retries THEN "fetch" ELSE "loop"
    /\ UNCHANGED <<args_output, data, loaded, success_count, writes,
                   exit_code, quota, merge_vars>>

\* an API call of the try block (line 38 or line 45) is pending
InTry == pc \in {"fetch", "rate_log"}
\* the pending call is g.get_repo
Fetching == IF pc = "fetch" THEN 1 ELSE 0

\* A variant of FetchOk that overwrites the counts of the first record of
\* the list, whichever record is being processed.
FetchOkFirstRecord ==
    /\ pc = "fetch"
    /\ quota = "ok"
    /\ \E s \in ApiStars, f \in ApiForks :
          /\ data' = [data EXCEPT ![1].stars_count = s,
                                   ![1].forks_count = f]
          /\ last_fetch' = <<s, f>>
    /\ fetches' = fetches + 1
    /\ pc' = "rate_log"
    /\ UNCHANGED <<args_output, loaded, index, success_count, retry_count,
                   backoff_time, slept, reset_delta, sleeps, rate_limited,
                   outcome, writes, exit_code, quota, merge_vars>>

\* lines 38-42: g.get_repo answers; the counts of the record are overwritten
FetchOk ==
    /\ pc = "fetch"
    /\ quota = "ok"
    /\ \E s \in ApiStars, f \in ApiForks :
          /\ data' = [data EXCEPT ![index].stars_count = s,
                                   ![index].forks_count = f]
          /\ last_fetch' = <<s, f>>
    /\ fetches' = fetches + 1
    /\ pc' = "rate_log"
    /\ UNCHANGED <<args_output, loaded, index, success_count, retry_count,
                   backoff_time, slept, reset_delta, sleeps, rate_limited,
                   outcome, writes, exit_code, quota, merge_vars>>

\* lines 45-48 and 130-134: g.get_rate_limit answers, update_repo_stats
\* returns True and main counts the success
RateLogOk ==
    /\ pc = "rate_log"
    /\ quota = "ok"
    /\ success_count' = success_count + 1
    /\ EndBody("updated")
    /\ UNCHANGED <<args_output, data, loaded, index, call_vars, writes,
                   exit_code, quota, merge_vars>>

\* line 50: the pending call raises RateLimitExceededException
RateLimitExceeded ==
    /\ InTry
    /\ quota = "ok"
    /\ rate_limited < MaxRateLimits
    /\ rate_limited' = rate_limited + 1
    /\ fetches' = fetches + Fetching
    /\ pc' = "rate_wait"
    /\ UNCHANGED <<args_output, data, loaded, index, success_count,
                   retry_count, backoff_time, slept, reset_delta, sleeps,
                   last_fetch, outcome, writes, exit_code, quota, merge_vars>>

\* A variant of RateLimitWait that counts the rate limit as an attempt, as
\* the handlers of the other errors do.
RateLimitWaitCounted ==
    /\ pc = "rate_wait"
    /\ quota = "ok"
    /\ \E d \in ResetDeltas :
          /\ reset_delta' = d
          /\ slept' = wait_time(d)
    /\ sleeps' = sleeps + 1
    /\ retry_count' = retry_count + 1
    /\ pc' = IF retry_count' < max_retries THEN "fetch" ELSE "loop"
    /\ outcome' = IF retry_count' < max_retries THEN outcome ELSE "gave_up"
    /\ UNCHANGED <<args_output, data, loaded, index, success_count,
                   backoff_time, fetches, rate_limited,
                   last_fetch, writes, exit_code, quota, merge_vars>>

\* lines 51-54 and 35: g.get_rate_limit answers in the handler; sleep until
\* the reset and go round the loop again
RateLimitWait ==
    /\ pc = "rate_wait"
    /\ quota = "ok"
    /\ \E d \in ResetDeltas :
          /\ reset_delta' = d
          /\ slept' = wait_time(d)
    /\ sleeps' = sleeps + 1
    /\ pc' = IF retry_count < max_retries THEN "fetch" ELSE "loop"
    /\ outcome' = IF retry_count < max_retries THEN outcome ELSE "gave_up"
    /\ UNCHANGED <<args_output, data, loaded, index, success_count,
                   retry_count, backoff_time, fetches, rate_limited,
                   last_fetch, writes, exit_code, quota, merge_vars>>

\* A variant of RateLimitWaitRaises in which the handler of line 56 or 67
\* catches the error raised at line 51 and counts it as a failed attempt.
RateLimitWaitRaisesRetried ==
    /\ pc = "rate_wait"
    /\ retry_count' = retry_count + 1
    /\ backoff_time' = NextBackoff(backoff_time)
    /\ slept' = backoff_time'
    /\ sleeps' = sleeps + 1
    /\ pc' = IF retry_count' < max_retries THEN "fetch" ELSE "loop"
    /\ outcome' = IF retry_count' < max_retries THEN outcome ELSE "gave_up"
    /\ UNCHANGED <<args_output, data, loaded, index, success_count,
                   reset_delta, fetches, rate_limited, last_fetch, writes,
                   exit_code, quota, merge_vars>>

\* line 51: g.get_rate_limit raises inside the handler; no handler of
\* update_repo_stats catches it, line 136 does
RateLimitWaitRaises ==
    /\ pc = "rate_wait"
    /\ EndBody("raised")
    /\ UNCHANGED <<args_output, data, loaded, index, success_count,
                   call_vars, writes, exit_code, quota, merge_vars>>

\* lines 56-60: the pending call raises GithubException with status 404
NotFound ==
    /\ InTry
    /\ quota = "ok"
    /\ fetches' = fetches + Fetching
    /\ EndBody("not_found")
    /\ UNCHANGED <<args_output, data, loaded, index, success_count,
                   retry_count, backoff_time, slept, reset_delta, sleeps,
                   rate_limited, last_fetch, writes, exit_code,
                   quota, merge_vars>>

\* A variant of CountedFailure whose loop test is retry_count <= max_retries.
CountedFailureOneMore ==
    /\ retry_count' = retry_count + 1
    /\ backoff_time' = NextBackoff(backoff_time)
    /\ slept' = backoff_time'
    /\ sleeps' = sleeps + 1
    /\ fetches' = fetches + Fetching
    /\ pc' = IF retry_count' <= max_retries THEN "fetch" ELSE "loop"
    /\ outcome' = IF retry_count' <= max_retries THEN outcome ELSE "gave_up"
    /\ UNCHANGED <<args_output, data, loaded, index, success_count,
                   reset_delta, rate_limited, last_fetch, writes, exit_code,
                   quota, merge_vars>>

\* lines 62-65 and 69-72, then lines 35 and 74-75: a counted failure
CountedFailure ==
    /\ retry_count' = retry_count + 1
    /\ backoff_time' = NextBackoff(backoff_time)
    /\ slept' = backoff_time'
    /\ sleeps' = sleeps + 1
    /\ fetches' = fetches + Fetching
    /\ pc' = IF retry_count' < max_retries THEN "fetch" ELSE "loop"
    /\ outcome' = IF retry_count' < max_retries THEN outcome ELSE "gave_up"
    /\ UNCHANGED <<args_output, data, loaded, index, success_count,
                   reset_delta, rate_limited, last_fetch, writes, exit_code,
                   quota, merge_vars>>

\* lines 56-65: the pending call raises GithubException, status not 404
ApiError ==
    /\ InTry
    /\ quota = "ok"
    /\ CountedFailure

\* lines 67-72: the pending call raises another Exception
UnexpectedError ==
    /\ InTry
    /\ quota = "ok"
    /\ CountedFailure

\* the loop of line 110 is over
LoopDone == pc = "loop" /\ index = Len(data)

\* A variant of Save whose exit status tells whether every repository was
\* updated.
SaveStrict ==
    /\ LoopDone
    /\ writes' = Append(writes, [path |-> output_file, ok |-> TRUE])
    /\ exit_code' = IF success_count = Len(data) THEN 0 ELSE 1
    /\ pc' = "exit"
    /\ NoCall
    /\ UNCHANGED <<args_output, data, loaded, index, success_count,
                   outcome, quota, merge_vars>>

\* lines 140-145 and 151: the data set is written
Save ==
    /\ LoopDone
    /\ writes' = Append(writes, [path |-> output_file, ok |-> TRUE])
    /\ exit_code' = 0
    /\ pc' = "exit"
    /\ NoCall
    /\ UNCHANGED <<args_output, data, loaded, index, success_count,
                   outcome, quota, merge_vars>>

\* lines 142-143 raise: lines 147-149
SaveFails ==
    /\ LoopDone
    /\ writes' = Append(writes, [path |-> output_file, ok |-> FALSE])
    /\ exit_code' = 1
    /\ pc' = "exit"
    /\ NoCall
    /\ UNCHANGED <<args_output, data, loaded, index, success_count,
                   outcome, quota, merge_vars>>

Next ==
    \/ Load \/ LoadFails
    \/ NextRepoNotMapping \/ NextRepoNoLinks \/ NextRepoNoUrl
    \/ NextRepoBadUrl \/ NextRepoCall
    \/ FetchOk \/ RateLogOk
    \/ RateLimitExceeded \/ RateLimitWait \/ RateLimitWaitRaises
    \/ NotFound \/ ApiError \/ UnexpectedError
    \/ Save \/ SaveFails

Spec == Init /\ [][Next]_vars

-----------------------------------------------------------------------------
(***************************************************************************)
(* Specification SpecLive: the updater with an API whose rate limit may    *)
(* stay exceeded for good, and with progress                               *)
(*                                                                         *)
(* In Spec the API raises RateLimitExceededException at most MaxRateLimits *)
(* times in a call.  Here the quota may in addition become "exhausted"     *)
(* while a call of the try block is pending: from then on every call of    *)
(* the try block (lines 38 and 45) raises RateLimitExceededException,      *)
(* whichever repository it is for.  The counters sleeps, fetches and       *)
(* rate_limited, which the code does not keep, stop counting then.         *)
(***************************************************************************)

\* the API starts to answer rate-limit-exceeded for good
QuotaExhausted ==
    /\ InTry
    /\ quota = "ok"
    /\ quota' = "exhausted"
    /\ UNCHANGED <<pc, args_output, data, loaded, index, success_count,
                   call_vars, outcome, writes, exit_code, merge_vars>>

\* line 50, the quota exhausted: the pending call raises
\* RateLimitExceededException
RateLimitExceededAgain ==
    /\ InTry
    /\ quota = "exhausted"
    /\ pc' = "rate_wait"
    /\ UNCHANGED <<args_output, data, loaded, index, success_count,
                   call_vars, outcome, writes, exit_code, quota, merge_vars>>

\* A variant of RateLimitWaitAgain that counts the rate limit as an attempt
\* and gives up after max_retries of them.
RateLimitWaitAgainCounted ==
    /\ pc = "rate_wait"
    /\ quota = "exhausted"
    /\ \E d \in ResetDeltas :
          /\ reset_delta' = d
          /\ slept' = wait_time(d)
    /\ retry_count' = retry_count + 1
    /\ pc' = IF retry_count' < max_retries THEN "fetch" ELSE "loop"
    /\ outcome' = IF retry_count' < max_retries THEN outcome ELSE "gave_up"
    /\ UNCHANGED <<args_output, data, loaded, index, success_count,
                   backoff_time, sleeps, fetches, rate_limited,
                   last_fetch, writes, exit_code, quota, merge_vars>>

\* lines 51-54 and 35, the quota exhausted: the status query answers, the
\* handler sleeps until the reset and the loop goes round again
RateLimitWaitAgain ==
    /\ pc = "rate_wait"
    /\ quota = "exhausted"
    /\ \E d \in ResetDeltas :
          /\ reset_delta' = d
          /\ slept' = wait_time(d)
    /\ pc' = "fetch"
    /\ UNCHANGED <<args_output, data, loaded, index, success_count,
                   retry_count, backoff_time, sleeps, fetches, rate_limited,
                   last_fetch, outcome, writes, exit_code, quota, merge_vars>>

\* the steps of the program: each statement ends, each API call and each
\* sleep returns or raises
Progress == Next \/ RateLimitExceededAgain \/ RateLimitWaitAgain

NextLive == Progress \/ QuotaExhausted

\* The program is sequential and nothing but itself can hold it up: as long
\* as it has a next step it takes one.
SpecLive == Init /\ [][NextLive]_vars /\ WF_vars(Progress)

-----------------------------------------------------------------------------
(***************************************************************************)
(* merge_projects: what the claims speak of, stated on the input alone     *)
(***************************************************************************)

RECURSIVE Flatten(_)
\* the entries of the files that hold an array, in processing order
Flatten(files) ==
    IF files = <<>> THEN <<>>
    ELSE (IF Head(files).kind = "array" THEN Head(files).projects ELSE <<>>)
         \o Flatten(Tail(files))

\* the entries that line 36 lets through, in processing order
ValidEntries(files) == SelectSeq(Flatten(files), IsValidEntry)

Returned == mpc = "done" /\ merge_result.exc = "none"
Merged == merge_result.merged

\* positions, in the valid entries vs, of the records of a name
PositionsOf(vs, name) == {i \in 1..Len(vs) : vs[i].name = name}
\* positions of the records of a name that no record of the name exceeds
MaxPositions(vs, name) ==
    {i \in PositionsOf(vs, name) :
        \A j \in PositionsOf(vs, name) : ~Greater(vs[j].stars_count, vs[i].stars_count)}
Min(S) == CHOOSE x \in S : \A y \in S : x <= y

\* the record of a name in a returned list (the name is in the list)
RecordOf(merged, name) == merged[KeyIndex(merged, name)]

\* C1: the returned list holds at most one record per name, it holds a
\* record for every name of a valid input record and no other, and the
\* stars_count of the record of a name is the maximum over the valid input
\* records of that name.
C1_OnePerNameMaxStars ==
    Returned =>
        LET vs == ValidEntries(input_files) IN
        /\ \A i, j \in 1..Len(Merged) : Merged[i].name = Merged[j].name => i = j
        /\ \A i \in 1..Len(vs) : HasKey(Merged, vs[i].name)
        /\ \A i \in 1..Len(Merged) :
              /\ PositionsOf(vs, Merged[i].name) # {}
              /\ \E k \in MaxPositions(vs, Merged[i].name) :
                    Merged[i].stars_count = vs[k].stars_count

\* C1 witness: a returned merge of two files that hold records of one name
\* with different stars_count.
C1_Witness ==
    /\ Returned
    /\ Len(input_files) = 2
    /\ \E i \in 1..Len(input_files[1].projects), j \in 1..Len(input_files[2].projects) :
          LET p == input_files[1].projects[i]
              q == input_files[2].projects[j] IN
          /\ IsValidEntry(p) /\ IsValidEntry(q)
          /\ p.name = q.name
          /\ Greater(q.stars_count, p.stars_count)

\* C2: for two files A and B, merge_projects([A, B]) and
\* merge_projects([B, A]) end the same way, keep the same names with the
\* same stars_count, and for two records of one name, one in each file, with
\* different stars_count, both keep a record at least as high as the higher
\* one; where one record alone has the maximum of its name both keep it.
C2_FileOrderIrrelevant ==
    (mpc = "done" /\ Len(input_files) = 2) =>
        LET swapped == merge_projects(<<input_files[2], input_files[1]>>)
            vs == ValidEntries(input_files) IN
        /\ swapped.exc = merge_result.exc
        /\ Returned =>
              /\ \A i \in 1..Len(Merged) :
                    /\ HasKey(swapped.merged, Merged[i].name)
                    /\ RecordOf(swapped.merged, Merged[i].name).stars_count
                          = Merged[i].stars_count
                    /\ Cardinality(MaxPositions(vs, Merged[i].name)) = 1
                          => RecordOf(swapped.merged, Merged[i].name) = Merged[i]
              /\ Len(swapped.merged) = Len(Merged)
              /\ \A p \in {input_files[1].projects[i] : i \in 1..Len(input_files[1].projects)},
                    q \in {input_files[2].projects[j] : j \in 1..Len(input_files[2].projects)} :
                    (IsValidEntry(p) /\ IsValidEntry(q) /\ p.name = q.name
                        /\ Greater(p.stars_count, q.stars_count))
                    => /\ ~Greater(p.stars_count, RecordOf(Merged, p.name).stars_count)
                       /\ ~Greater(p.stars_count, RecordOf(swapped.merged, p.name).stars_count)

\* C2 witness: file A holds one record, file B one record of the same name
\* and a lower stars_count, and the merge kept A's.
C2_Witness ==
    /\ Returned
    /\ Len(input_files) = 2
    /\ Len(input_files[1].projects) = 1 /\ Len(input_files[2].projects) = 1
    /\ IsValidEntry(input_files[1].projects[1])
    /\ IsValidEntry(input_files[2].projects[1])
    /\ input_files[1].projects[1].name = input_files[2].projects[1].name
    /\ Greater(input_files[1].projects[1].stars_count,
               input_files[2].projects[1].stars_count)
    /\ Merged = <<input_files[1].projects[1]>>

\* C3 (as claimed): whatever the files contain, merge_projects returns a
\* list and raises no unhandled error.
C3_NeverRaises == mpc = "done" => merge_result.exc = "none"

\* C8: merging a file with itself gives what merging it once gives: the
\* same list in the same order (and the same error where one is raised).
C8_Idempotent ==
    (mpc = "done" /\ Len(input_files) = 1) =>
        LET twice == merge_projects(<<input_files[1], input_files[1]>>) IN
        /\ twice.exc = merge_result.exc
        /\ Returned => twice.merged = Merged

\* C8 witness: a merged file with a duplicate name of equal stars_count and
\* an invalid entry.
C8_Witness ==
    /\ Returned
    /\ Len(input_files) = 1
    /\ LET ps == input_files[1].projects IN
       /\ \E i \in 1..Len(ps) : ~IsValidEntry(ps[i])
       /\ \E i, j \in 1..Len(ps) :
             /\ i < j /\ IsValidEntry(ps[i]) /\ IsValidEntry(ps[j])
             /\ ps[i].name = ps[j].name
             /\ ps[i].stars_count = ps[j].stars_count

\* C9: the record that survives for a name is the first, in processing
\* order, of the valid records of that name that have the maximum
\* stars_count: a later record replaces the stored one only when its
\* stars_count is strictly greater.
C9_FirstOfMaxSurvives ==
    Returned =>
        LET vs == ValidEntries(input_files) IN
        \A i \in 1..Len(Merged) :
            /\ MaxPositions(vs, Merged[i].name) # {}
            /\ Merged[i] = vs[Min(MaxPositions(vs, Merged[i].name))]

\* C9 witness: two valid records of one name share the maximum stars_count
\* and a lower record of the name precedes them.
C9_Witness ==
    /\ Returned
    /\ LET vs == ValidEntries(input_files) IN
       \E i, j, k \in 1..Len(vs) :
          /\ i < j /\ j < k
          /\ j \in MaxPositions(vs, vs[j].name)
          /\ k \in MaxPositions(vs, vs[j].name)
          /\ vs[i].name = vs[j].name
          /\ Greater(vs[j].stars_count, vs[i].stars_count)

\* C10: the returned list is ordered by the first occurrence of each name
\* among the valid records, also for a name whose record was replaced later.
C10_FirstOccurrenceOrder ==
    Returned =>
        LET vs == ValidEntries(input_files) IN
        \A i, j \in 1..Len(Merged) :
            i < j => Min(PositionsOf(vs, Merged[i].name))
                        < Min(PositionsOf(vs, Merged[j].name))

\* C10 witness: name X appears first, then name Y, and a later file holds a
\* higher-starred record of X, which is the one returned, before Y's.
C10_Witness ==
    /\ Returned
    /\ Len(input_files) = 2
    /\ Len(input_files[1].projects) = 2 /\ Len(input_files[2].projects) = 1
    /\ Len(Merged) = 2
    /\ Merged[1] = input_files[2].projects[1]
    /\ Merged[2] = input_files[1].projects[2]

\* an entry that is a mapping with both keys, told by its fields alone
Kept(e) == e.kind = "dict" /\ e.name.t # "absent" /\ e.stars_count.t # "absent"

RECURSIVE Cleaned(_)
\* the input without the files that hold no array and, in the files left,
\* without the entries that are no mapping or lack name or stars_count
Cleaned(files) ==
    IF files = <<>> THEN <<>>
    ELSE (IF Head(files).kind = "array"
          THEN <<[kind |-> "array", projects |-> SelectSeq(Head(files).projects, Kept)]>>
          ELSE <<>>)
         \o Cleaned(Tail(files))

-----------------------------------------------------------------------------
(***************************************************************************)
(* The updater: what the claims speak of                                   *)
(***************************************************************************)

\* the counts of the record being processed are those that were loaded
CountsAsLoaded(d) ==
    /\ d[index].stars_count = loaded[index].stars_count
    /\ d[index].forks_count = loaded[index].forks_count

\* C4 (as claimed): a step in which g.get_repo answers 404 ends
\* update_repo_stats at once, without a further fetch or a sleep, and leaves
\* the counts of the record as they were when the update of the repository
\* started.
C4_NotFoundLeavesCounts ==
    [][(pc = "fetch" /\ outcome' = "not_found")
        => /\ pc' = "loop"
           /\ sleeps' = sleeps
           /\ fetches' = fetches + Fetching
           /\ CountsAsLoaded(data')]_vars

\* C5 (as claimed): when update_repo_stats has given up after max_retries
\* attempts, the counts of the record are those it had before the update
\* started, and main is back at the head of its loop.
C5_GiveUpLeavesCounts ==
    (outcome = "gave_up" /\ pc = "loop")
        => /\ retry_count = max_retries
           /\ CountsAsLoaded(data)

\* C6: a step that raises or handles RateLimitExceededException changes
\* neither the attempt counter nor the backoff timer; and when
\* update_repo_stats returns True the success count grows by one, the
\* record holds the counts of the last fetch and, if every sleep of the call
\* was a rate-limit wait, the attempt counter is still 0 and the backoff
\* timer still 1.
C6_RateLimitNotCounted ==
    [][/\ (pc = "rate_wait" \/ pc' = "rate_wait")
            => (retry_count' = retry_count /\ backoff_time' = backoff_time)
       /\ (pc = "rate_log" /\ outcome' = "updated")
            => /\ success_count' = success_count + 1
               /\ <<data'[index].stars_count, data'[index].forks_count>> = last_fetch
               /\ sleeps = rate_limited => (retry_count' = 0 /\ backoff_time' = 1)]_vars

\* C6 witness: update_repo_stats has returned True after two rate-limit
\* waits and no other failure.
C6_Witness ==
    /\ pc = "loop" /\ outcome = "updated"
    /\ rate_limited = 2 /\ sleeps = 2
    /\ retry_count = 0
    /\ success_count = 1
    /\ data[index].stars_count = 2

AllMappings(d) == \A i \in 1..Len(d) : d[i].kind = "dict"

\* C7 (as claimed): in a run that loaded its input, main ends with exactly
\* one write of the data set, made after every repository was processed, to
\* --output when given and to the input path otherwise.
C7_WrittenOnceToOutput ==
    (pc = "exit" /\ outcome # "load_failed")
        => /\ Len(writes) = 1
           /\ index = Len(data)
           /\ writes[1].path = IF args_output # "<None>" THEN args_output
                                ELSE args_json

\* C7 (amended): the data set is never written before every repository was
\* processed nor more than once; a run that loaded an array of mappings
\* ends with exactly one write, to --output when it is given and not empty
\* and to the input path otherwise; a run that loaded an array with an
\* element that is no mapping ends without a write.
C7_WrittenOnceAmended ==
    /\ Len(writes) <= 1
    /\ writes # <<>> => (pc = "exit" /\ index = Len(data) /\ AllMappings(loaded))
    /\ (pc = "exit" /\ outcome # "load_failed" /\ AllMappings(loaded))
          => /\ Len(writes) = 1
             /\ writes[1].path = IF args_output \in {"<None>", ""} THEN "in.json"
                                  ELSE args_output
    /\ (pc = "exit" /\ ~AllMappings(loaded)) => (writes = <<>> /\ exit_code = 1)

\* C7 witness: two repositories, the first updated and the second given up,
\* and the data set written to the path given with --output.
C7_Witness ==
    /\ pc = "exit"
    /\ Len(data) = 2
    /\ success_count = 1
    /\ outcome = "gave_up"
    /\ args_output = "out.json"
    /\ writes = <<[path |-> "out.json", ok |-> TRUE]>>

\* the write of the run was attempted and raised
WriteRaised == writes # <<>> /\ ~writes[Len(writes)].ok
\* the write of the run was made
WriteDone == writes # <<>> /\ writes[Len(writes)].ok

\* C12 (as claimed): main returns 0 whenever loading and writing both
\* succeed, however many repositories failed or were skipped; it returns 1
\* when loading or writing raises; and nothing that happens while one
\* repository is processed ends the run with status 1.
C12_ExitStatus ==
    pc = "exit"
        => /\ (outcome # "load_failed" /\ WriteDone) => exit_code = 0
           /\ (outcome = "load_failed" \/ WriteRaised) => exit_code = 1
           /\ exit_code = 1 => (outcome = "load_failed" \/ WriteRaised)

\* C12 (amended): main has no exit status before it ends; it returns 0
\* exactly when the write was made, which a run that loaded an array of
\* mappings reaches after its last repository however many of them failed
\* or were skipped; it returns 1 when loading raises, when writing raises,
\* and when an element of the array is no mapping, and in no other case.
C12_ExitStatusAmended ==
    /\ pc # "exit" => exit_code = -1
    /\ pc = "exit"
        => /\ exit_code \in {0, 1}
           /\ exit_code = 0 <=> WriteDone
           /\ exit_code = 1
                <=> (outcome = "load_failed" \/ WriteRaised \/ ~AllMappings(loaded))
           /\ (outcome # "load_failed" /\ AllMappings(loaded))
                => (index = Len(data) /\ Len(writes) = 1)
           /\ ~AllMappings(loaded) => writes = <<>>

\* C12 witness: a run of two repositories, the first skipped and the second
\* given up after max_retries attempts, ends with status 0.
C12_Witness ==
    /\ pc = "exit"
    /\ exit_code = 0
    /\ Len(data) = 2
    /\ ~data[1].has_links
    /\ outcome = "gave_up"
    /\ success_count = 0

\* update_repo_stats is running
InCall == pc \in {"fetch", "rate_log", "rate_wait"}

\* C13: within one call of update_repo_stats the attempt counter never
\* exceeds max_retries and the number of g.get_repo calls is at most
\* max_retries plus the number of rate-limit-exceeded responses; once the
\* counter has reached max_retries the call is over, it has returned False
\* (no success was counted for the repository) and no fetch follows.
C13_AttemptsBounded ==
    /\ retry_count <= max_retries
    /\ fetches <= max_retries + rate_limited
    /\ retry_count = max_retries
          => /\ ~InCall
             /\ pc = "loop"
             /\ outcome = "gave_up"
             /\ success_count < index

\* C13 witness: a call that gave up after max_retries counted failures and
\* a rate-limit-exceeded response, having fetched max_retries + 1 times.
C13_Witness ==
    /\ pc = "loop"
    /\ outcome = "gave_up"
    /\ retry_count = max_retries
    /\ rate_limited = 1
    /\ fetches = max_retries + rate_limited

RECURSIVE Pow2(_)
Pow2(k) == IF k = 0 THEN 1 ELSE 2 * Pow2(k - 1)

\* a step in which a pending API call of the try block raises an error
\* that is neither a rate limit nor a 404
CountedStep ==
    /\ InTry
    /\ pc' \notin {"rate_log", "rate_wait"}
    /\ outcome' \notin {"updated", "not_found"}

RateLimitHandled == pc = "rate_wait" /\ pc' = "fetch"

\* C16 (as claimed): the sleep of the rate-limit handler is
\* (reset - now) + 1 seconds whatever the reset time, a reset time in the
\* past included.
C16_WaitIsResetPlusOne ==
    [][RateLimitHandled => slept' = reset_delta' + 1]_vars

\* C16 (amended): the handler of a rate-limit-exceeded response whose
\* status query answers sleeps once, for (reset - now) + 1 seconds when the
\* reset time lies in the future and for 1 second when it does not; the
\* handler whose status query raises does not sleep.
C16_WaitIsClamped ==
    [][pc = "rate_wait"
        => \/ /\ RateLimitHandled
              /\ sleeps' = sleeps + 1
              /\ slept' = IF reset_delta' > 0 THEN reset_delta' + 1 ELSE 1
              /\ slept' >= 1
           \/ /\ pc' = "loop" /\ outcome' = "raised"
              /\ sleeps' = sleeps /\ slept' = slept]_vars

\* C16 witness: the handler has slept 1 second for a reset time 2 seconds
\* in the past.
C16_Witness ==
    /\ pc = "fetch"
    /\ rate_limited >= 1
    /\ sleeps = rate_limited
    /\ reset_delta = -2
    /\ slept = 1

\* no link of the record has a URL that contains the domain
NoDomainLink(r) == \A i \in 1..Len(r.links) : r.links[i] = "other"
\* the first link whose URL contains the domain lacks the prefix
FirstDomainLinkUnprefixed(r) ==
    \E i \in 1..Len(r.links) :
        /\ r.links[i] = "mirror"
        /\ \A j \in 1..(i - 1) : r.links[j] = "other"

\* C17: when the next record is a mapping with links of which none contains
\* the domain, or of which the first that contains the domain lacks the
\* prefix https://github.com/ (whatever the later links are), main skips
\* it in one step: no API call is made, no record changes, no success is
\* counted, and main is at the head of its loop for the next repository.
C17_SkippedWithoutCall ==
    [][(/\ HasNext
        /\ data[index + 1].kind = "dict"
        /\ data[index + 1].has_links
        /\ (\/ NoDomainLink(data[index + 1])
            \/ FirstDomainLinkUnprefixed(data[index + 1])))
        => /\ index' = index + 1
           /\ pc' = "loop"
           /\ outcome' = "skipped"
           /\ data' = data
           /\ fetches' = 0 /\ sleeps' = 0
           /\ success_count' = success_count
           /\ exit_code' = -1]_vars

\* C17 witness: the first record, whose links are an unprefixed URL of the
\* domain followed by a prefixed one, was skipped and is as loaded; the
\* second record has been updated since.
C17_Witness ==
    /\ pc = "loop"
    /\ index = 2
    /\ data[1].links = <<"mirror", "github">>
    /\ data[1] = loaded[1]
    /\ outcome = "updated"
    /\ success_count = 1

\* the fields of a record other than stars_count and forks_count
OtherFields(r) == <<r.kind, r.has_links, r.links>>

\* C18: the data set always holds as many records as were loaded, in the
\* same order, each with its fields other than stars_count and forks_count
\* as loaded; the records main has not reached yet are as loaded; and no
\* step changes a record other than the one being processed.
C18_OnlyCountsOfCurrentRecord ==
    /\ [](/\ Len(data) = Len(loaded)
          /\ \A i \in 1..Len(data) :
                /\ OtherFields(data[i]) = OtherFields(loaded[i])
                /\ i > index => data[i] = loaded[i])
    /\ [][pc # "start"
            => /\ Len(data') = Len(data)
               /\ \A j \in 1..Len(data) :
                     (j # index \/ ~InCall) => data'[j] = data[j]]_vars

\* C18 witness: a run of two repositories has ended with a write; the
\* first record holds fetched counts, the second (not found) is as loaded.
C18_Witness ==
    /\ pc = "exit"
    /\ WriteDone
    /\ Len(data) = 2
    /\ data[1].stars_count = 2 /\ data[1].forks_count = 3
    /\ outcome = "not_found"
    /\ data[2] = loaded[2]
    /\ data[2].links = <<"other", "github">>

\* the counts of record i were overwritten (the API reports no count 0)
Overwritten(i) ==
    \/ data[i].stars_count # loaded[i].stars_count
    \/ data[i].forks_count # loaded[i].forks_count

\* C19 (as claimed): when main is back at the head of its loop after a
\* repository, update_repo_stats has returned True for it exactly if the
\* counts of its record were overwritten, the record then holding the
\* counts of the last fetch; and the success count is the number of
\* records whose counts were overwritten, at most the number of records.
C19_SuccessIffOverwritten ==
    (pc = "loop" /\ index >= 1)
        => /\ (outcome = "updated") <=> Overwritten(index)
           /\ outcome = "updated"
                => <<data[index].stars_count, data[index].forks_count>> = last_fetch
           /\ success_count = Cardinality({i \in 1..index : Overwritten(i)})
           /\ success_count <= Len(data)

\* the status query of the rate-limit handler (line 51) raises
StatusQueryRaises == pc = "rate_wait" /\ pc' # "fetch"

\* what the failure of the status query does to the call: the error leaves
\* update_repo_stats, no attempt is counted, nothing is slept, no success
\* is counted, and main is at the head of its loop, the run not ended
Abandoned ==
    /\ pc' = "loop"
    /\ outcome' = "raised"
    /\ retry_count' = retry_count /\ backoff_time' = backoff_time
    /\ sleeps' = sleeps /\ slept' = slept /\ fetches' = fetches
    /\ success_count' = success_count
    /\ index' = index /\ data' = data
    /\ writes' = writes /\ exit_code' = -1

\* C20 (as claimed): a failure of the status query abandons the repository
\* as above, and main goes on from there: its next step takes the next
\* repository without ending the run, or makes the terminal write after
\* the last one.
C20_StatusQueryFailureEscapes ==
    [][/\ StatusQueryRaises => Abandoned
       /\ (pc = "loop" /\ outcome = "raised")
            => \/ index' = index + 1 /\ pc' # "exit"
               \/ index = Len(data) /\ Len(writes') = 1 /\ pc' = "exit"]_vars

\* C20 (amended): a failure of the status query abandons the repository as
\* above; main then takes the next repository, which ends the run only if
\* it is no mapping, or makes the terminal write after the last one; every
\* run that loaded an array of mappings ends with every repository
\* processed and one write, and a run that loaded an element that is no
\* mapping ends without a write.
C20_StatusQueryFailureEscapesAmended ==
    /\ [][/\ StatusQueryRaises => Abandoned
          /\ (pc = "loop" /\ outcome = "raised")
               => \/ /\ index' = index + 1
                     /\ (pc' = "exit") <=> (data[index'].kind # "dict")
                  \/ index = Len(data) /\ Len(writes') = 1 /\ pc' = "exit"]_vars
    /\ []((pc = "exit" /\ outcome # "load_failed" /\ AllMappings(loaded))
            => (index = Len(data) /\ Len(writes) = 1))
    /\ []((pc = "exit" /\ ~AllMappings(loaded)) => writes = <<>>)

\* C20 witness: the status query failed while the first of two
\* repositories was handled after a rate-limit-exceeded response; nothing
\* was slept or counted and main is at the head of its loop.
C20_Witness ==
    /\ pc = "loop"
    /\ outcome = "raised"
    /\ index = 1 /\ Len(data) = 2
    /\ rate_limited = 1
    /\ sleeps = 0 /\ retry_count = 0
    /\ success_count = 0
    /\ exit_code = -1

\* update_repo_stats has returned (True, or False after a 404 or after
\* max_retries attempts) for the repository main is at
HasReturned == outcome \in {"updated", "not_found", "gave_up"}
\* the API answers rate-limit-exceeded for good and a call is running
Stuck == quota = "exhausted" /\ InCall

\* the part of C14 that the claim and its amendment share: a call that is
\* running ends unless the API answers rate-limit-exceeded for good; when
\* it does, the call never returns and its attempt counter neither moves
\* nor is max_retries: the call goes on for ever, or is ended by the
\* exception of a failing status query (line 51).
CallEndsUnlessRateLimitedForever ==
    /\ [](InCall => (<>(~InCall) \/ <>[]Stuck))
    /\ [](Stuck => ([]Stuck \/ <>(outcome = "raised")))
    /\ [][Stuck => /\ retry_count' = retry_count
                   /\ retry_count < max_retries
                   /\ ~HasReturned'
                   /\ success_count' = success_count]_vars

\* C14 (as claimed): as above; and a run that loaded its input reaches the
\* terminal write unless the API answers rate-limit-exceeded for good.
C14_TerminatesUnlessRateLimitedForever ==
    /\ CallEndsUnlessRateLimitedForever
    /\ [](pc = "loop" => (<>(pc = "exit" /\ writes # <<>>) \/ <>[]Stuck))

\* C14 (amended): as above; and a run ends unless the API answers
\* rate-limit-exceeded for good: with the terminal write, after its last
\* repository, when it loaded an array of mappings, and without a write
\* when it loaded an element that is no mapping.
C14_TerminatesAmended ==
    /\ CallEndsUnlessRateLimitedForever
    /\ <>(pc = "exit") \/ <>[]Stuck
    /\ [](pc = "exit" => [](pc = "exit"))
    /\ []((pc = "exit" /\ outcome # "load_failed" /\ AllMappings(loaded))
            => (index = Len(data) /\ Len(writes) = 1))
    /\ []((pc = "exit" /\ ~AllMappings(loaded)) => writes = <<>>)

\* C14 witness: the API answers rate-limit-exceeded for good; the call has
\* been through the handler (it slept 3 seconds, until the reset) and is
\* about to fetch again, its attempt counter still 0.
C14_Witness ==
    /\ Stuck
    /\ pc = "fetch"
    /\ slept = 3 /\ reset_delta = 2
    /\ sleeps = 0
    /\ retry_count = 0

=============================================================================
